---------------------------- MODULE Spec2Model ----------------------------
(***************************************************************************)
(* Script-to-flowchart application: the inference boundary                 *)
(* (services/geminiService.ts), the top-level controller (App.tsx), the    *)
(* submit button (components/ControlPanel.tsx) and the FlowChart           *)
(* component (layout, auto-fit, pan/zoom, style editor).                   *)
(*                                                                         *)
(* Strings are sequences of fragments.  A fragment is a piece of text; the *)
(* digits of a string supplied by the provider are always one fragment     *)
(* each, and the literal text of the program's own messages (which never   *)
(* contains "429") is one fragment per literal.  String.includes is then a *)
(* scan for consecutive fragments.                                         *)
(***************************************************************************)
EXTENDS Integers, Sequences, FiniteSets, TLC

VARIABLES
    script,              \* App: useState script
    flowData,            \* App: useState flowData (FlowChart's data prop)
    generatedFunctions,  \* App: useState generatedFunctions
    isLoading,           \* App: useState isLoading
    error,               \* App: useState error
    calls,               \* one record per invocation of handleAnalyzeScript,
                         \* in the order of the invocations
    started,             \* number of invocations of handleAnalyzeScript so far
    lastWriter,          \* invocation that last wrote flowData/functions/error
    customNodeStyles,    \* FlowChart: useState customNodeStyles
    defaultNodeStylesObject, \* FlowChart module: the content of the object
                         \* that the constant defaultNodeStyles refers to
    g,                   \* FlowChart: the dagre graph of the last render effect
    transform,           \* FlowChart: the zoom transform of the svg (k, x, y)
    zoomBound,           \* FlowChart: a zoom behaviour is bound to the svg
    container,           \* FlowChart: container size read by the last render effect
    dom,                 \* FlowChart: what the svg group shows (node positions,
                         \* edge paths, edge label positions)
    svgGroupRef,         \* FlowChart: svgGroupRef.current ("null" or "g")
    edits,               \* FlowChart: style changes and gestures so far
    isExportMenuOpen,    \* FlowChart: useState isExportMenuOpen
    copyStatus,          \* FlowChart: useState copyStatus
    fitToA4,             \* FlowChart: useState fitToA4
    ops,                 \* export and clipboard operations started so far, in
                         \* the order of the clicks
    timers,              \* pending setTimeout callbacks, in the order they fire
    bbox,                \* the bounding box getBBox() gives for the svg group
    exported,            \* the geometry of the last exported document
    tooltip,             \* FlowChart: useState tooltip
    pointer              \* the node element the mouse pointer is on, if any

appVars == <<script, generatedFunctions, isLoading, error, calls, started,
             lastWriter>>
exportVars == <<isExportMenuOpen, copyStatus, fitToA4, ops, timers, bbox, exported>>
hoverVars == <<tooltip, pointer>>
chartVars == <<customNodeStyles, defaultNodeStylesObject, g, transform, zoomBound,
               container, dom, svgGroupRef, edits, exportVars, hoverVars>>

vars == <<flowData, appVars, chartVars>>

----------------------------------------------------------------------------
(* Bounds of the model *)

MaxRequests == 3
MaxNodes == 2
MaxEdges == 2
MaxStyleChanges == 2
MaxGestures == 2
MaxDrags == 2

----------------------------------------------------------------------------
(* Strings *)

S429 == <<"4", "2", "9">>

Range(xs) == {xs[i] : i \in 1..Len(xs)}

\* String.prototype.includes
Includes(s, pat) ==
    \E i \in 1..(Len(s) - Len(pat) + 1) : SubSeq(s, i, i + Len(pat) - 1) = pat

IsSpace(c) == c = " "

RECURSIVE DropLeadingSpace(_)
DropLeadingSpace(s) ==
    IF s # <<>> /\ IsSpace(Head(s)) THEN DropLeadingSpace(Tail(s)) ELSE s

RECURSIVE DropTrailingSpace(_)
DropTrailingSpace(s) ==
    IF s # <<>> /\ IsSpace(s[Len(s)])
    THEN DropTrailingSpace(SubSeq(s, 1, Len(s) - 1))
    ELSE s

\* String.prototype.trim
Trim(s) == DropTrailingSpace(DropLeadingSpace(s))

\* !script.trim(): the empty string is falsy
Blank(s) == Trim(s) = <<>>

----------------------------------------------------------------------------
(* JSON values of the provider's response *)

JStr(s) == [isString |-> TRUE, chars |-> s]
JNotStr == [isString |-> FALSE, chars |-> <<>>]
JArr(xs) == [isArray |-> TRUE, items |-> xs]
JNotArr == [isArray |-> FALSE, items |-> <<>>]

JNode(id, label, type, description) ==
    [isNull |-> FALSE, id |-> id, label |-> label, type |-> type,
     description |-> description]
JNullNode ==
    [isNull |-> TRUE, id |-> JNotStr, label |-> JNotStr, type |-> JNotStr,
     description |-> JNotStr]

JEdge(source, target, label) ==
    [isNull |-> FALSE, source |-> source, target |-> target, label |-> label]
JNullEdge ==
    [isNull |-> TRUE, source |-> JNotStr, target |-> JNotStr, label |-> JNotStr]

JFlowchart(nodes, edges) == [isObject |-> TRUE, nodes |-> nodes, edges |-> edges]
JNoFlowchart == [isObject |-> FALSE, nodes |-> JNotArr, edges |-> JNotArr]

JResponse(flowchart, functions) == [flowchart |-> flowchart, functions |-> functions]

NodeTypes == {<<"start">>, <<"process">>, <<"decision">>, <<"end">>}

SeqsUpTo(S, n) == UNION {[1..k -> S] : k \in 0..n}


----------------------------------------------------------------------------
(* What the provider can answer to one generateContent call *)

\* messages of errors the provider rejects with; a rate-limit rejection
\* carries the HTTP status 429 in its message
ErrorJson(code, message) ==
    <<"{", "\"error\":", "{", "\"code\":">> \o code
        \o <<",", "\"message\":", "\"">> \o message \o <<"\"", "}", "}">>

RateLimitMessages ==
    { ErrorJson(S429, <<"Resource exhausted">>),
      <<"got status: ">> \o S429 \o <<" Too Many Requests">> }

OtherProviderMessages ==
    { ErrorJson(<<"5", "0", "0">>, <<"Internal error">>),
      <<"fetch failed">> }

NodeA == JNode(JStr(<<"a">>), JStr(<<"L">>), JStr(<<"start">>), JStr(<<"D">>))
NodeB == JNode(JStr(<<"b">>), JStr(<<"M">>), JStr(<<"process">>), JNotStr)
NodeEmpty == JNode(JStr(<<>>), JStr(<<>>), JStr(<<"decision">>), JStr(<<>>))

NodePool ==
    { NodeA, NodeB, NodeEmpty,
      JNullNode,
      JNode(JStr(<<"b">>), JNotStr, JStr(<<"process">>), JNotStr),
      JNode(JStr(<<"b">>), JStr(<<"L">>), JStr(<<"loop">>), JNotStr),
      JNode(JStr(S429), JStr(<<"L">>), JStr(<<"loop">>), JNotStr) }

EdgePool ==
    { JEdge(JStr(<<"a">>), JStr(<<"b">>), JStr(<<"Yes">>)),
      JEdge(JStr(<<"a">>), JStr(<<"a">>), JNotStr),
      JEdge(JStr(S429), JStr(<<"a">>), JNotStr),
      JEdge(JStr(<<"z">>), JStr(<<"a">>), JNotStr),
      JEdge(JStr(<<"a">>), JStr(<<"z">>), JNotStr),
      JEdge(JStr(<<"a">>), JNotStr, JNotStr),
      JNullEdge }

FunctionsPool == { JArr(<<>>), JArr(<<"f">>) }

Payloads ==
    { JResponse(JFlowchart(JArr(ns), JArr(es)), fs) :
        ns \in SeqsUpTo(NodePool, MaxNodes),
        es \in SeqsUpTo(EdgePool, MaxEdges),
        fs \in FunctionsPool }
    \cup
    { JResponse(JNoFlowchart, JArr(<<>>)),
      JResponse(JFlowchart(JNotArr, JArr(<<>>)), JArr(<<>>)),
      JResponse(JFlowchart(JArr(<<NodeA>>), JNotArr), JArr(<<>>)),
      JResponse(JFlowchart(JArr(<<NodeA>>), JArr(<<>>)), JNotArr) }

NoData == JResponse(JNoFlowchart, JNotArr)

Outcome(kind, rateLimit, message, data) ==
    [kind |-> kind, rateLimit |-> rateLimit, message |-> message, data |-> data]

ProviderOutcomes ==
    { Outcome("reject", TRUE, m, NoData) : m \in RateLimitMessages }
    \cup { Outcome("reject", FALSE, m, NoData) : m \in OtherProviderMessages }
    \cup { Outcome("rejectNonError", FALSE, <<>>, NoData),
           Outcome("noText", FALSE, <<>>, NoData),
           Outcome("badJson", FALSE, <<>>, NoData) }
    \cup { Outcome("json", FALSE, <<>>, p) : p \in Payloads }

----------------------------------------------------------------------------
(* generateFlowFromScript: the body of the try block *)

maxRetries == 3
initialDelayMs == 2000

Returned(data) ==
    [ok |-> TRUE, data |-> data, isError |-> FALSE, message |-> <<>>,
     cause |-> "ok"]
Threw(cause, isErr, message) ==
    [ok |-> FALSE, data |-> NoData, isError |-> isErr, message |-> message,
     cause |-> cause]

\* lines 104-109
StructureOk(p) ==
    /\ p.flowchart.isObject
    /\ p.flowchart.nodes.isArray
    /\ p.flowchart.edges.isArray
    /\ p.functions.isArray

\* line 112
NodeMalformed(n) ==
    n.isNull \/ ~n.id.isString \/ ~n.label.isString \/ ~n.type.isString

\* line 115
NodeTypeUnsupported(n) == n.type.chars \notin NodeTypes

NodeRejected(n) == NodeMalformed(n) \/ NodeTypeUnsupported(n)

\* line 122
EdgeMalformed(e) == e.isNull \/ ~e.source.isString \/ ~e.target.isString

EdgeRejected(e, nodeIds) ==
    \/ EdgeMalformed(e)
    \/ e.source.chars \notin nodeIds
    \/ e.target.chars \notin nodeIds

\* index of the first element the callback throws on, 0 when there is none
FirstRejected(xs, Rejected(_)) ==
    IF \E i \in 1..Len(xs) : Rejected(xs[i])
    THEN CHOOSE i \in 1..Len(xs) :
            Rejected(xs[i]) /\ \A j \in 1..(i - 1) : ~Rejected(xs[j])
    ELSE 0

InvalidNodeTypeMessage(n) ==
    <<"Invalid node type: Node '">> \o n.id.chars
        \o <<"' has an unsupported type '">> \o n.type.chars \o <<"'.">>

NodeError(n) ==
    IF NodeMalformed(n)
    THEN Threw("node", TRUE,
               <<"Invalid node data: Each node must have a valid 'id', 'label', and 'type'.">>)
    ELSE Threw("nodeType", TRUE, InvalidNodeTypeMessage(n))

EdgeError(e, nodeIds) ==
    IF EdgeMalformed(e)
    THEN Threw("edge", TRUE,
               <<"Invalid edge data: Each edge must have a 'source' and 'target'.">>)
    ELSE IF e.source.chars \notin nodeIds
    THEN Threw("danglingSource", TRUE,
               <<"Data integrity issue: Edge references a non-existent source node with ID '">>
                   \o e.source.chars \o <<"'.">>)
    ELSE Threw("danglingTarget", TRUE,
               <<"Data integrity issue: Edge references a non-existent target node with ID '">>
                   \o e.target.chars \o <<"'.">>)

\* lines 101-133: the validation of the parsed response
Validate(p) ==
    IF ~StructureOk(p)
    THEN Threw("structure", TRUE,
               <<"Invalid data structure: The AI response is missing key components or has incorrect types.">>)
    ELSE
      LET nodes == p.flowchart.nodes.items
          edges == p.flowchart.edges.items
          badNode == FirstRejected(nodes, NodeRejected)
          nodeIds == {nodes[i].id.chars : i \in 1..Len(nodes)}
          EdgeBad(e) == EdgeRejected(e, nodeIds)
          badEdge == FirstRejected(edges, EdgeBad)
      IN  IF badNode # 0 THEN NodeError(nodes[badNode])
          ELSE IF badEdge # 0 THEN EdgeError(edges[badEdge], nodeIds)
          ELSE Returned(p)

\* lines 88-133: one pass through the try block, given the provider's answer
TryBody(o) ==
    CASE o.kind = "reject" ->
            Threw(IF o.rateLimit THEN "rateLimit" ELSE "providerError", TRUE, o.message)
      [] o.kind = "rejectNonError" -> Threw("nonError", FALSE, <<>>)
      [] o.kind = "noText" ->
            Threw("noText", TRUE,
                  <<"Cannot read properties of undefined (reading 'trim')">>)
      [] o.kind = "badJson" ->
            Threw("syntax", TRUE, <<"Unexpected end of JSON input">>)
      [] OTHER -> Validate(o.data)

AttemptResults == { TryBody(o) : o \in ProviderOutcomes }

----------------------------------------------------------------------------
(* generateFlowFromScript: the catch block *)

\* line 139
isRateLimitError(res) == res.isError /\ Includes(res.message, S429)

\* line 141: attempt has already been incremented
RetryDecision(res, attempt) == isRateLimitError(res) /\ attempt < maxRetries

IsDigit(c) == c \in {"0", "1", "2", "3", "4", "5", "6", "7", "8", "9"}

ErrorJsonPrefix == <<"{", "\"error\":", "{", "\"code\":">>
ErrorJsonMiddle == <<",", "\"message\":", "\"">>
ErrorJsonSuffix == <<"\"", "}", "}">>

\* position of the "," that ends the code of an error payload, 0 when the
\* text is not of the form ErrorJson(code, message)
ErrorJsonSplit(body) ==
    LET n == Len(body)
        Fits(k) ==
            /\ SubSeq(body, 1, 4) = ErrorJsonPrefix
            /\ \A i \in 5..(k - 1) : IsDigit(body[i])
            /\ k > 5
            /\ SubSeq(body, k, k + 2) = ErrorJsonMiddle
            /\ SubSeq(body, n - 2, n) = ErrorJsonSuffix
            /\ \A i \in (k + 3)..(n - 3) : body[i] \notin {"\"", "{", "}"}
    IN  IF \E k \in 5..(n - 5) : Fits(k)
        THEN CHOOSE k \in 5..(n - 5) : Fits(k)
        ELSE 0

\* lines 151-161: match /({.*})/s, JSON.parse, errorJson?.error?.message
UnwrapMessage(message) ==
    LET opens == {i \in 1..Len(message) : message[i] = "{"}
        first == CHOOSE i \in opens : \A j \in opens : i <= j
        closes == {i \in 1..Len(message) : message[i] = "}" /\ i > first}
        last == CHOOSE i \in closes : \A j \in closes : j <= i
        body == SubSeq(message, first, last)
        k == ErrorJsonSplit(body)
        inner == SubSeq(body, k + 3, Len(body) - 3)
    IN  IF opens = {} THEN message
        ELSE IF closes = {} THEN message
        ELSE IF k = 0 \/ inner = <<>> THEN message
        ELSE inner

\* lines 147-165: the message of the error the call throws
FinalMessage(res) ==
    <<"Failed to generate flowchart: ">> \o
        (IF res.isError
         THEN UnwrapMessage(res.message)
         ELSE <<"An unknown error occurred while communicating with the AI.">>)

\* line 171
BusyMessage ==
    <<"Failed to generate flowchart after multiple attempts. The API is busy, please try again later.">>

----------------------------------------------------------------------------
(* State of the App and of the calls in flight *)

FlowNull == JNoFlowchart
ErrNull == [isNull |-> TRUE, message |-> <<>>]
ErrText(m) == [isNull |-> FALSE, message |-> m]

defaultScript == <<"The game starts.">>

ScriptPool == { <<>>, <<" ">>, defaultScript, <<" ", "plot", " ">> }

\* pc: "none" (not started), "provider" (awaiting generateContent),
\* "backoff" (awaiting setTimeout), "returned", "threw"
\* attempt, delayMs: the locals of lines 63-64; caught: the message of the
\* error of the latest catch; thrown: the message of the error the call threw;
\* log, waited, answer: the history of the call (cause of each attempt's
\* outcome, delays waited, the validated response)
NoCall ==
    [pc |-> "none", attempt |-> 0, delayMs |-> 0, caught |-> <<>>,
     thrown |-> <<>>, log |-> <<>>, waited |-> <<>>, answer |-> NoData]

\* lines 62-64 and the first generateContent call
NewCall ==
    [pc |-> "provider", attempt |-> 0, delayMs |-> initialDelayMs,
     caught |-> <<>>, thrown |-> <<>>, log |-> <<>>, waited |-> <<>>,
     answer |-> NoData]

Requests == DOMAIN calls

\* what the model keeps of a call once a later one has started: how it ended
Archived(c) == [NoCall EXCEPT !.pc = c.pc]

Finished(c) == c.pc \in {"returned", "threw"}
InFlight(c) == c.pc \in {"provider", "backoff"}

AppInit ==
    /\ script = defaultScript
    /\ flowData = FlowNull
    /\ generatedFunctions = <<>>
    /\ isLoading = FALSE
    /\ error = ErrNull
    /\ calls = <<>>
    /\ started = 0
    /\ lastWriter = 0

----------------------------------------------------------------------------
(* Rational numbers: the coordinates and scales of the FlowChart *)

Abs(i) == IF i < 0 THEN -i ELSE i

RECURSIVE Gcd(_, _)
Gcd(a, b) == IF b = 0 THEN a ELSE Gcd(b, a % b)

\* n/d in lowest terms with a positive denominator (d # 0)
Rat(n, d) ==
    LET c == Gcd(Abs(n), Abs(d))
        sgn == IF d < 0 THEN -1 ELSE 1
    IN  [n |-> (sgn * n) \div c, d |-> (sgn * d) \div c]

RInt(i) == [n |-> i, d |-> 1]
RAdd(a, b) == Rat(a.n * b.d + b.n * a.d, a.d * b.d)
RSub(a, b) == Rat(a.n * b.d - b.n * a.d, a.d * b.d)
RMul(a, b) == Rat(a.n * b.n, a.d * b.d)
RDiv(a, b) == Rat(a.n * b.d, a.d * b.n)
RLess(a, b) == a.n * b.d < b.n * a.d
RLeq(a, b) == a.n * b.d <= b.n * a.d
RMin(a, b) == IF RLess(b, a) THEN b ELSE a
RMax(a, b) == IF RLess(a, b) THEN b ELSE a

----------------------------------------------------------------------------
(* FlowChart: styles *)

\* the value of a style field: a colour string or a number
Colour(c) == [isNaN |-> FALSE, value |-> 0, text |-> c]
Num(v) == [isNaN |-> FALSE, value |-> v, text |-> ""]
NaN == [isNaN |-> TRUE, value |-> 0, text |-> ""]

NodeStyle(color1, color2, stroke, textColor, fontSize) ==
    [color1 |-> Colour(color1), color2 |-> Colour(color2), stroke |-> Colour(stroke),
     textColor |-> Colour(textColor), fontSize |-> Num(fontSize)]

StyleTypes == {"start", "end", "decision", "process"}

defaultNodeStyles ==
    [t \in StyleTypes |->
        CASE t = "start" -> NodeStyle("#a3e635", "#16a34a", "#15803d", "#ffffff", 14)
          [] t = "end" -> NodeStyle("#f87171", "#e11d48", "#be123c", "#ffffff", 14)
          [] t = "decision" -> NodeStyle("#fbbf24", "#f97316", "#ea580c", "#ffffff", 14)
          [] OTHER -> NodeStyle("#38bdf8", "#2563eb", "#1d4ed8", "#ffffff", 14)]

\* the state holds either the defaultNodeStyles object itself or a copy made
\* by handleStyleChange (React compares states with Object.is)
StyleState(isDefaults, styles) == [isDefaults |-> isDefaults, styles |-> styles]

DigitValue(c) ==
    CASE c = "0" -> 0 [] c = "1" -> 1 [] c = "2" -> 2 [] c = "3" -> 3
      [] c = "4" -> 4 [] c = "5" -> 5 [] c = "6" -> 6 [] c = "7" -> 7
      [] c = "8" -> 8 [] OTHER -> 9

RECURSIVE DigitsValue(_, _)
\* value of the longest prefix of digits of s, continuing from acc
DigitsValue(s, acc) ==
    IF s = <<>> \/ ~IsDigit(Head(s)) THEN acc
    ELSE DigitsValue(Tail(s), 10 * acc + DigitValue(Head(s)))

\* parseInt(text, 10)
ParseInt(text) ==
    LET t == DropLeadingSpace(text)
        neg == t # <<>> /\ Head(t) = "-"
        u == IF t # <<>> /\ Head(t) \in {"-", "+"} THEN Tail(t) ELSE t
    IN  IF u = <<>> \/ ~IsDigit(Head(u)) THEN NaN
        ELSE Num(IF neg THEN -DigitsValue(u, 0) ELSE DigitsValue(u, 0))

\* what the user does in the Style Editor: a colour picked, or a text typed
\* into the font-size field (lines 124 and 129)
StyleEdit(type, property, value) ==
    [type |-> type, property |-> property, value |-> value]

StyleEdits ==
    { StyleEdit("start", "color1", Colour("#000000")),
      StyleEdit("start", "fontSize", ParseInt(<<"3", "0">>)),
      StyleEdit("start", "fontSize", ParseInt(<<"2", "0">>)),
      StyleEdit("end", "fontSize", ParseInt(<<>>)) }

----------------------------------------------------------------------------
(* FlowChart: the dagre graph and its layout *)

NODE_WIDTH == 150
NODE_HEIGHT == 60

Point(x, y) == [x |-> x, y |-> y]

\* oracle: which of its layouts the layout oracle computes for this diagram
EmptyGraph ==
    [oracle |-> "column", order |-> <<>>, nodes |-> <<>>, edges |-> <<>>,
     width |-> 0, height |-> 0]

RECURSIVE FirstOccurrences(_, _)
\* the distinct elements of xs after those of seen, in order of first occurrence
FirstOccurrences(xs, seen) ==
    IF xs = <<>> THEN <<>>
    ELSE IF Head(xs) \in seen THEN FirstOccurrences(Tail(xs), seen)
    ELSE <<Head(xs)>> \o FirstOccurrences(Tail(xs), seen \cup {Head(xs)})

LastIndex(xs, P(_)) == CHOOSE i \in 1..Len(xs) : P(xs[i]) /\ \A j \in (i + 1)..Len(xs) : ~P(xs[j])

\* g.nodes() after the setNode calls of lines 339-341: setNode on an id already
\* in the graph replaces its value
GraphNodeIds(nodes) ==
    FirstOccurrences([i \in 1..Len(nodes) |-> nodes[i].id.chars], {})

\* g.edges() after the setEdge calls of lines 342-344: the graph is created
\* without {multigraph: true}, so setEdge on a pair (v, w) already in the
\* graph replaces its value
GraphEdgeKeys(edges) ==
    FirstOccurrences([i \in 1..Len(edges) |->
                        <<edges[i].source.chars, edges[i].target.chars>>], {})

\* where the layout oracle puts the i-th node: one under the other, or side
\* by side
Slot(arrangement, i) ==
    IF arrangement = "column"
    THEN Point(75, 30 + 140 * (i - 1))
    ELSE Point(75 + 200 * (i - 1), 30)

IndexOf(xs, x) == CHOOSE i \in 1..Len(xs) : xs[i] = x

Arrangements == {"column", "row"}

\* lines 335-346: build the graph and lay it out
Layout(data, arrangement) ==
    LET nodes == data.nodes.items
        edges == data.edges.items
        order == GraphNodeIds(nodes)
        keys == GraphEdgeKeys(edges)
        At(id) == Slot(arrangement, IndexOf(order, id))
        NodeOf(id) ==
            LET HasId(n) == n.id.chars = id
            IN  nodes[LastIndex(nodes, HasId)]
        EdgeOf(key) ==
            LET HasKey(e) == <<e.source.chars, e.target.chars>> = key
            IN  edges[LastIndex(edges, HasKey)]
        Mid(a, b) == Point((a.x + b.x) \div 2, (a.y + b.y) \div 2)
        last == Slot(arrangement, Len(order))
    IN  [oracle |-> arrangement,
         order |-> order,
         nodes |-> [id \in Range(order) |->
                      [label |-> NodeOf(id).label.chars,
                       type |-> NodeOf(id).type.chars,
                       description |-> NodeOf(id).description,
                       width |-> NODE_WIDTH, height |-> NODE_HEIGHT,
                       x |-> At(id).x, y |-> At(id).y]],
         edges |-> [key \in Range(keys) |->
                      [label |-> EdgeOf(key).label,
                       points |-> <<At(key[1]), Mid(At(key[1]), At(key[2])), At(key[2])>>,
                       x |-> RInt(Mid(At(key[1]), At(key[2])).x),
                       y |-> RInt(Mid(At(key[1]), At(key[2])).y)]],
         width |-> last.x + 75,
         height |-> last.y + 30]

\* line 401: the edges that get a label element (g.edge(e).label is truthy)
Labelled(graph) ==
    {key \in DOMAIN graph.edges :
        graph.edges[key].label.isString /\ graph.edges[key].label.chars # <<>>}

EmptyDom == [nodes |-> <<>>, paths |-> <<>>, labels |-> <<>>, text |-> <<>>]

MaxLabel == 6

\* the width getComputedTextLength reports for one character, in a font of
\* equal glyphs that lets a label of MaxLabel characters pass the limit
GlyphWidth == 30

\* line 458: tspan.node().getComputedTextLength()
getComputedTextLength(chars) == Len(chars) * GlyphWidth

\* line 446: text.text().split(/\s+/), the pieces between the runs of
\* whitespace; cur is the piece being read, inRun tells that the last
\* character read was whitespace
RECURSIVE SplitWhitespace(_, _, _)
SplitWhitespace(chars, cur, inRun) ==
    IF chars = <<>> THEN <<cur>>
    ELSE IF IsSpace(Head(chars))
         THEN IF inRun
              THEN SplitWhitespace(Tail(chars), cur, TRUE)
              ELSE <<cur>> \o SplitWhitespace(Tail(chars), <<>>, TRUE)
         ELSE SplitWhitespace(Tail(chars), Append(cur, Head(chars)), FALSE)

\* lines 457 and 460: line.join(" ")
RECURSIVE JoinWords(_)
JoinWords(line) ==
    IF line = <<>> THEN <<>>
    ELSE IF Len(line) = 1 THEN line[1]
    ELSE line[1] \o <<" ">> \o JoinWords(Tail(line))

\* lines 455-465: the loop over the words still to place, with the words of
\* the tspan being filled; it ends at the first word that is falsy (the
\* empty string, or undefined when the words are used up)
RECURSIVE WrapLoop(_, _, _)
WrapLoop(words, line, width) ==
    IF words = <<>> \/ Head(words) = <<>>
    THEN <<JoinWords(line)>>
    ELSE LET word == Head(words)
             tried == Append(line, word)
         IN  IF getComputedTextLength(JoinWords(tried)) > width /\ Len(tried) > 1
             THEN <<JoinWords(line)>> \o WrapLoop(Tail(words), <<word>>, width)
             ELSE WrapLoop(Tail(words), tried, width)

\* lines 443-470: the texts of the tspans that replace the label
wrapText(label, width) ==
    WrapLoop(SplitWhitespace(label, <<>>, FALSE), <<>>, width)

\* lines 385-419: the elements appended for the laid-out graph
Paint(graph) ==
    [nodes |-> [id \in DOMAIN graph.nodes |->
                  Point(graph.nodes[id].x, graph.nodes[id].y)],
     paths |-> [key \in DOMAIN graph.edges |-> graph.edges[key].points],
     labels |-> [key \in Labelled(graph) |->
                   Point(graph.edges[key].x, graph.edges[key].y)],
     text |-> [id \in DOMAIN graph.nodes |->
                 wrapText(graph.nodes[id].label, NODE_WIDTH - 25)]]

----------------------------------------------------------------------------
(* FlowChart: zoom transform and auto-fit *)

Transform(k, x, y) == [k |-> k, x |-> x, y |-> y]

\* d3.zoomIdentity
zoomIdentity == Transform(RInt(1), RInt(0), RInt(0))

Size(width, height) == [width |-> width, height |-> height]

ContainerSizes == { Size(800, 600), Size(100, 100) }

\* an auto-fit without the cap of 1.5: the variant of AutoFit that C12 must
\* tell apart
AutoFit_NoCap(size, graphWidth, graphHeight) ==
    LET scale == RMin(Rat(size.width - 80, graphWidth),
                      Rat(size.height - 80, graphHeight))
        translateX == RDiv(RSub(RInt(size.width), RMul(RInt(graphWidth), scale)), RInt(2))
        translateY == RDiv(RSub(RInt(size.height), RMul(RInt(graphHeight), scale)), RInt(2))
    IN  Transform(scale, translateX, translateY)

\* lines 558-568
AutoFit(size, graphWidth, graphHeight) ==
    LET scale == RMin(RMin(Rat(size.width - 80, graphWidth),
                           Rat(size.height - 80, graphHeight)),
                      Rat(3, 2))
        translateX == RDiv(RSub(RInt(size.width), RMul(RInt(graphWidth), scale)), RInt(2))
        translateY == RDiv(RSub(RInt(size.height), RMul(RInt(graphHeight), scale)), RInt(2))
    IN  Transform(scale, translateX, translateY)

\* line 552: scaleExtent([0.1, 4])
scaleExtentMin == Rat(1, 10)
scaleExtentMax == RInt(4)

----------------------------------------------------------------------------
(* Initial state *)

\* the pointer is on the element of the node id
OnNode(id) == [over |-> TRUE, id |-> id]
NoPointer == [over |-> FALSE, id |-> <<>>]

\* lines 333 and 412-419: the node elements are removed and appended anew;
\* a pointer that was on a node is on the new element of that node or on none
Repainted(laid) ==
    IF pointer.over /\ pointer.id \in DOMAIN laid.nodes
    THEN {NoPointer, pointer}
    ELSE {NoPointer}

Tooltip(visible, content, x, y) ==
    [visible |-> visible, content |-> content, x |-> x, y |-> y]

ChartInit ==
    /\ tooltip = Tooltip(FALSE, JStr(<<>>), 0, 0)
    /\ pointer = NoPointer
    /\ customNodeStyles = StyleState(TRUE, defaultNodeStyles)
    /\ defaultNodeStylesObject = defaultNodeStyles
    /\ svgGroupRef = "null"
    /\ g = EmptyGraph
    /\ transform = zoomIdentity
    /\ zoomBound = FALSE
    /\ container = Size(0, 0)
    /\ dom = EmptyDom
    /\ edits = [styleChanges |-> 0, gestures |-> 0, drags |-> 0]

\* lines 147-152, before any export
BBox(x, y, width, height) == [x |-> x, y |-> y, width |-> width, height |-> height]
NoBBox == BBox(RInt(0), RInt(0), RInt(0), RInt(0))

\* const padding = 20 of createCanvasFromSVG (line 49) and getSVGString (173)
padding == 20
PADDING_MM == 10
A4_WIDTH_MM == 210
A4_HEIGHT_MM == 297

\* where doc.addImage puts the canvas on the page
Placement(landscape, pageWidth, pageHeight, imgWidth, imgHeight, x, y) ==
    [landscape |-> landscape, pageWidth |-> pageWidth, pageHeight |-> pageHeight,
     imgWidth |-> imgWidth, imgHeight |-> imgHeight, x |-> x, y |-> y]

NoPlacement ==
    Placement(FALSE, RInt(0), RInt(0), RInt(0), RInt(0), RInt(0), RInt(0))

\* a produced document: the bounding box it was made from, its size, the
\* translate given to the content group, the scale of the content and, for
\* a PDF, the placement on the page
Document(kind, b, scale, width, height, tx, ty, fit, page) ==
    [kind |-> kind, bbox |-> b, scale |-> scale, width |-> width,
     height |-> height, tx |-> tx, ty |-> ty, fit |-> fit, page |-> page]

NoExport ==
    Document("none", NoBBox, 0, RInt(0), RInt(0), RInt(0), RInt(0), FALSE,
             NoPlacement)

\* getSVGString, lines 171-178: the width and height attributes and the
\* transform of the group of the cloned svg
getSVGString(b) ==
    Document("svg", b, 1,
             RAdd(b.width, RInt(padding * 2)), RAdd(b.height, RInt(padding * 2)),
             RAdd(RSub(RInt(0), b.x), RInt(padding)),
             RAdd(RSub(RInt(0), b.y), RInt(padding)),
             FALSE, NoPlacement)

\* the conversion of a non-negative number to the unsigned long of
\* HTMLCanvasElement.width and .height: the fraction is dropped (the values
\* here are far below 2^32)
ToUnsignedLong(r) == RInt(r.n \div r.d)

\* createCanvasFromSVG, lines 48-57 and 87-89: canvasWidth and canvasHeight
\* are assigned to canvas.width and canvas.height
createCanvasFromSVG(b, scale) ==
    LET canvasWidth == RMul(RAdd(b.width, RInt(padding * 2)), RInt(scale))
        canvasHeight == RMul(RAdd(b.height, RInt(padding * 2)), RInt(scale))
    IN  Document("canvas", b, scale,
                 ToUnsignedLong(canvasWidth), ToUnsignedLong(canvasHeight),
                 RMul(RAdd(RSub(RInt(0), b.x), RInt(padding)), RInt(scale)),
                 RMul(RAdd(RSub(RInt(0), b.y), RInt(padding)), RInt(scale)),
                 FALSE, NoPlacement)

\* the fit-to-A4 branch without the check of the height: the variant of
\* FitToA4 that C20 must tell apart
FitToA4_NoHeightCap(canvas) ==
    LET canvasAspectRatio == RDiv(canvas.width, canvas.height)
        isLandscape == RLess(RInt(1), canvasAspectRatio)
        pageWidth == RInt(IF isLandscape THEN A4_HEIGHT_MM ELSE A4_WIDTH_MM)
        pageHeight == RInt(IF isLandscape THEN A4_WIDTH_MM ELSE A4_HEIGHT_MM)
        imgWidth == RSub(pageWidth, RInt(PADDING_MM * 2))
        imgHeight == RDiv(imgWidth, canvasAspectRatio)
    IN  Placement(isLandscape, pageWidth, pageHeight, imgWidth, imgHeight,
                  RDiv(RSub(pageWidth, imgWidth), RInt(2)),
                  RDiv(RSub(pageHeight, imgHeight), RInt(2)))

\* handleExportPDF, lines 237-264
FitToA4(canvas) ==
    LET canvasAspectRatio == RDiv(canvas.width, canvas.height)
        isLandscape == RLess(RInt(1), canvasAspectRatio)
        pageWidth == RInt(IF isLandscape THEN A4_HEIGHT_MM ELSE A4_WIDTH_MM)
        pageHeight == RInt(IF isLandscape THEN A4_WIDTH_MM ELSE A4_HEIGHT_MM)
        usableWidth == RSub(pageWidth, RInt(PADDING_MM * 2))
        usableHeight == RSub(pageHeight, RInt(PADDING_MM * 2))
        widthFirst == RDiv(usableWidth, canvasAspectRatio)
        tooHigh == RLess(usableHeight, widthFirst)
        imgHeight == IF tooHigh THEN usableHeight ELSE widthFirst
        imgWidth == IF tooHigh THEN RMul(imgHeight, canvasAspectRatio)
                               ELSE usableWidth
    IN  Placement(isLandscape, pageWidth, pageHeight, imgWidth, imgHeight,
                  RDiv(RSub(pageWidth, imgWidth), RInt(2)),
                  RDiv(RSub(pageHeight, imgHeight), RInt(2)))

\* handleExportPDF, lines 270-276: a page of the size of the canvas
NativePage(canvas) ==
    Placement(RLess(canvas.height, canvas.width), canvas.width, canvas.height,
              canvas.width, canvas.height, RInt(0), RInt(0))

\* the PDF that handleExportPDF saves for a canvas
PdfOf(canvas, fit) ==
    [canvas EXCEPT !.kind = "pdf", !.fit = fit,
                   !.page = IF fit THEN FitToA4(canvas) ELSE NativePage(canvas)]

\* the PNG that handleExportPNG downloads for a canvas
PngOf(canvas) == [canvas EXCEPT !.kind = "png"]

\* one started export or clipboard operation: where it stands, the document
\* it is producing, the value of fitToA4 its handler closed over, and the
\* record of how it ended
Op(kind, stage, doc, fit) ==
    [kind |-> kind, stage |-> stage, doc |-> doc, fit |-> fit,
     failure |-> "none", logged |-> FALSE, notified |-> FALSE,
     escaped |-> FALSE, menuAfter |-> "pending", success |-> "none"]

ExportInit ==
    /\ isExportMenuOpen = FALSE
    /\ copyStatus = "idle"
    /\ fitToA4 = TRUE
    /\ ops = <<>>
    /\ timers = <<>>
    /\ bbox = NoBBox
    /\ exported = NoExport

Init == AppInit /\ ChartInit /\ ExportInit

----------------------------------------------------------------------------
(* App and ScriptInput *)

\* ScriptInput: textarea onChange
setScript(s) ==
    /\ s # script
    /\ script' = s
    /\ UNCHANGED <<flowData, generatedFunctions, isLoading, error, calls,
                   started, lastWriter, chartVars>>

\* a button that stays enabled while a request is in flight: the variant of
\* SubmitDisabled that C9 must tell apart
SubmitDisabled_IgnoresLoading == Blank(script)

\* ScriptInput: disabled={isLoading || !script.trim()}
SubmitDisabled == isLoading \/ Blank(script)

\* a start of a request that leaves the displayed diagram and functions in
\* place: the variant of handleAnalyzeScript that C8 must tell apart
handleAnalyzeScript_KeepsDiagram ==
    /\ ~isLoading
    /\ started < MaxRequests
    /\ ~Blank(script)
    /\ isLoading' = TRUE
    /\ error' = ErrNull
    /\ started' = started + 1
    /\ lastWriter' = started + 1
    /\ calls' = Append([r \in Requests |->
                            IF Finished(calls[r]) THEN Archived(calls[r])
                            ELSE calls[r]],
                        NewCall)
    /\ UNCHANGED <<flowData, generatedFunctions, script, chartVars>>

\* a start of a request that does not look at the script: the variant of
\* handleAnalyzeScript that C24 must tell apart
handleAnalyzeScript_AcceptsBlank ==
    /\ ~isLoading
    /\ started < MaxRequests
    /\ isLoading' = TRUE
    /\ error' = ErrNull
    /\ flowData' = FlowNull
    /\ generatedFunctions' = <<>>
    /\ started' = started + 1
    /\ lastWriter' = started + 1
    /\ calls' = Append([r \in Requests |->
                            IF Finished(calls[r]) THEN Archived(calls[r])
                            ELSE calls[r]],
                        NewCall)
    /\ UNCHANGED <<script, chartVars>>

\* App.handleAnalyzeScript up to its await (lines 18-27), entered by a click
\* on the enabled button
handleAnalyzeScript ==
    /\ ~SubmitDisabled
    /\ started < MaxRequests
    /\ ~Blank(script)
    /\ isLoading' = TRUE
    /\ error' = ErrNull
    /\ flowData' = FlowNull
    /\ generatedFunctions' = <<>>
    /\ started' = started + 1
    /\ lastWriter' = started + 1
    /\ calls' = Append([r \in Requests |->
                            IF Finished(calls[r]) THEN Archived(calls[r])
                            ELSE calls[r]],
                        NewCall)
    /\ UNCHANGED <<script, chartVars>>

\* App lines 28-29 and 37: the call returned
AppResolved(r, data) ==
    /\ flowData' = data.flowchart
    /\ generatedFunctions' = data.functions.items
    /\ isLoading' = FALSE
    /\ lastWriter' = r
    /\ UNCHANGED <<error, script, started, chartVars>>

\* App lines 30-37: the call threw an Error
AppRejected(r, message) ==
    /\ error' = ErrText(message)
    /\ isLoading' = FALSE
    /\ lastWriter' = r
    /\ UNCHANGED <<flowData, generatedFunctions, script, started, chartVars>>

----------------------------------------------------------------------------
(* generateFlowFromScript: the retry loop *)

\* the attempt passes validation: line 133, then the App's continuation
AttemptSucceeds(r) ==
    /\ calls[r].pc = "provider"
    /\ \E res \in AttemptResults :
        /\ res.ok
        /\ calls' = [calls EXCEPT ![r].pc = "returned",
                                  ![r].log = Append(@, res.cause),
                                  ![r].answer = res.data]
        /\ AppResolved(r, res.data)

\* the attempt throws and the catch block waits before the next one
AttemptRetries(r) ==
    /\ calls[r].pc = "provider"
    /\ \E res \in AttemptResults :
        /\ ~res.ok
        /\ RetryDecision(res, calls[r].attempt + 1)
        /\ calls' = [calls EXCEPT ![r].pc = "backoff",
                                  ![r].attempt = @ + 1,
                                  ![r].caught = res.message,
                                  ![r].log = Append(@, res.cause)]
        /\ UNCHANGED <<script, flowData, generatedFunctions, isLoading, error,
                       started, lastWriter, chartVars>>

\* the attempt throws and the catch block rethrows (lines 145-166)
AttemptFails(r) ==
    /\ calls[r].pc = "provider"
    /\ \E res \in AttemptResults :
        /\ ~res.ok
        /\ ~RetryDecision(res, calls[r].attempt + 1)
        /\ calls' = [calls EXCEPT ![r].pc = "threw",
                                  ![r].attempt = @ + 1,
                                  ![r].caught = res.message,
                                  ![r].thrown = FinalMessage(res),
                                  ![r].log = Append(@, res.cause)]
        /\ AppRejected(r, FinalMessage(res))

\* a backoff whose delay is not doubled: the variant of BackoffElapsed that
\* C7 must tell apart
BackoffElapsed_NoDoubling(r) ==
    /\ calls[r].pc = "backoff"
    /\ calls[r].attempt < maxRetries
    /\ calls' = [calls EXCEPT ![r].pc = "provider",
                              ![r].waited = Append(@, calls[r].delayMs)]
    /\ UNCHANGED <<script, flowData, generatedFunctions, isLoading,
                   error, started, lastWriter, chartVars>>

\* setTimeout(resolve, delayMs) fires: lines 143-144, then the loop test of
\* line 87 and either the next generateContent call or line 171
BackoffElapsed(r) ==
    /\ calls[r].pc = "backoff"
    /\ IF calls[r].attempt < maxRetries
       THEN /\ calls' = [calls EXCEPT ![r].pc = "provider",
                                      ![r].waited = Append(@, calls[r].delayMs),
                                      ![r].delayMs = @ * 2]
            /\ UNCHANGED <<script, flowData, generatedFunctions, isLoading,
                           error, started, lastWriter, chartVars>>
       ELSE /\ calls' = [calls EXCEPT ![r].pc = "threw",
                                      ![r].waited = Append(@, calls[r].delayMs),
                                      ![r].delayMs = @ * 2,
                                      ![r].thrown = BusyMessage]
            /\ AppRejected(r, BusyMessage)

Next ==
    \/ \E s \in ScriptPool : setScript(s)
    \/ handleAnalyzeScript
    \/ \E r \in Requests : AttemptSucceeds(r)
    \/ \E r \in Requests : AttemptRetries(r)
    \/ \E r \in Requests : AttemptFails(r)
    \/ \E r \in Requests : BackoffElapsed(r)

\* the App and the inference boundary; the FlowChart component is left as
\* mounted (SpecChart is its specification)
Spec == Init /\ [][Next]_vars

----------------------------------------------------------------------------
(* FlowChart: the render effect and the handlers *)

\* the diagrams App can pass as the data prop: flowcharts of responses that
\* pass the validation of generateFlowFromScript
ChartEdge(source, target, label) == JEdge(JStr(source), JStr(target), label)

ChartPool ==
    { JFlowchart(JArr(<<>>), JArr(<<>>)),
      JFlowchart(JArr(<<NodeA>>), JArr(<<>>)),
      JFlowchart(JArr(<<NodeEmpty>>), JArr(<<>>)),
      JFlowchart(JArr(<<NodeA>>), JArr(<<ChartEdge(<<"a">>, <<"a">>, JNotStr)>>)),
      JFlowchart(JArr(<<NodeA, NodeA>>), JArr(<<>>)),
      JFlowchart(JArr(<<NodeA, NodeB>>),
                 JArr(<<ChartEdge(<<"a">>, <<"b">>, JStr(<<"Yes">>))>>)),
      JFlowchart(JArr(<<NodeA, NodeB>>),
                 JArr(<<ChartEdge(<<"a">>, <<"b">>, JStr(<<"Yes">>)),
                        ChartEdge(<<"a">>, <<"b">>, JStr(<<"No">>))>>)),
      JFlowchart(JArr(<<NodeB, NodeA>>),
                 JArr(<<ChartEdge(<<"a">>, <<"b">>, JNotStr),
                        ChartEdge(<<"b">>, <<"a">>, JNotStr)>>)) }

ChartDiagrams ==
    { fc \in ChartPool :
        /\ Len(fc.nodes.items) <= MaxNodes
        /\ Len(fc.edges.items) <= MaxEdges
        /\ Validate(JResponse(fc, JArr(<<>>))).ok }

\* line 324: data && data.nodes.length
HasNodes(data) == data # FlowNull /\ Len(data.nodes.items) > 0

\* lines 323-573: the effect of [data, customNodeStyles], run with the
\* container size it reads and the layout the oracle computes
RenderEffect(data, size, arrangement) ==
    IF ~HasNodes(data)
    THEN /\ g' = EmptyGraph
         /\ dom' = EmptyDom
         /\ pointer' = NoPointer
         /\ UNCHANGED <<transform, zoomBound, container, svgGroupRef>>
    ELSE LET laid == Layout(data, arrangement)
         IN  /\ g' = laid
             /\ dom' = Paint(laid)
             /\ pointer' \in Repainted(laid)
             /\ svgGroupRef' = "g"
             /\ container' = size
             /\ zoomBound' = TRUE
             /\ transform' = IF laid.width > 0 /\ laid.height > 0
                             THEN AutoFit(size, laid.width, laid.height)
                             ELSE transform

\* App sets flowData to the flowchart of a response (App line 28)
DataArrives(d) ==
    /\ flowData = FlowNull
    /\ flowData' = d
    /\ \E size \in ContainerSizes, arrangement \in Arrangements :
          RenderEffect(d, size, arrangement)
    /\ edits' = IF HasNodes(d) THEN [edits EXCEPT !.gestures = 0, !.drags = 0]
                 ELSE edits
    /\ UNCHANGED <<customNodeStyles, defaultNodeStylesObject, appVars, exportVars, tooltip>>

\* App sets flowData to null (App line 23)
DataCleared ==
    /\ flowData # FlowNull
    /\ flowData' = FlowNull
    /\ RenderEffect(FlowNull, container, g.oracle)
    /\ UNCHANGED edits
    /\ UNCHANGED <<customNodeStyles, defaultNodeStylesObject, appVars, exportVars, tooltip>>

\* a style change that writes into the object it is given instead of copying
\* it: the variant of handleStyleChange that C14 must tell apart
handleStyleChange_InPlace(e) ==
    /\ HasNodes(flowData)
    /\ edits.styleChanges < MaxStyleChanges
    /\ customNodeStyles' =
          [customNodeStyles EXCEPT !.styles[e.type][e.property] = e.value]
    /\ defaultNodeStylesObject' =
          IF customNodeStyles.isDefaults
          THEN [defaultNodeStylesObject EXCEPT ![e.type][e.property] = e.value]
          ELSE defaultNodeStylesObject
    /\ \E size \in ContainerSizes : RenderEffect(flowData, size, g.oracle)
    /\ edits' = [styleChanges |-> edits.styleChanges + 1, gestures |-> 0,
                  drags |-> 0]
    /\ UNCHANGED <<flowData, appVars, exportVars, tooltip>>

\* lines 154-162, called by the Style Editor, which is rendered only with a
\* diagram that has nodes; the new state object makes the effect run again
handleStyleChange(e) ==
    /\ HasNodes(flowData)
    /\ edits.styleChanges < MaxStyleChanges
    /\ customNodeStyles' =
          StyleState(FALSE,
                     [customNodeStyles.styles EXCEPT ![e.type][e.property] = e.value])
    /\ \E size \in ContainerSizes : RenderEffect(flowData, size, g.oracle)
    /\ edits' = [styleChanges |-> edits.styleChanges + 1, gestures |-> 0,
                  drags |-> 0]
    /\ UNCHANGED <<flowData, defaultNodeStylesObject, appVars, exportVars, tooltip>>

\* line 636: setCustomNodeStyles(defaultNodeStyles); React does nothing when
\* the state already is that object
onReset ==
    /\ HasNodes(flowData)
    /\ ~customNodeStyles.isDefaults
    /\ customNodeStyles' = StyleState(TRUE, defaultNodeStylesObject)
    /\ \E size \in ContainerSizes : RenderEffect(flowData, size, g.oracle)
    /\ edits' = [edits EXCEPT !.gestures = 0, !.drags = 0]
    /\ UNCHANGED <<flowData, defaultNodeStylesObject, appVars, exportVars, tooltip>>

Clamp(k) == RMax(scaleExtentMin, RMin(scaleExtentMax, k))

\* d3.zoom wheel gesture at pointer p with factor 2^delta (line 552)
Wheel(p, factor) ==
    LET k1 == Clamp(RMul(transform.k, factor))
        \* the point of the diagram under the pointer stays under it
        px == RDiv(RSub(RInt(p.x), transform.x), transform.k)
        py == RDiv(RSub(RInt(p.y), transform.y), transform.k)
    IN  /\ zoomBound
        /\ edits.gestures < MaxGestures
        /\ k1 # transform.k
        /\ transform' = Transform(k1, RSub(RInt(p.x), RMul(px, k1)),
                                      RSub(RInt(p.y), RMul(py, k1)))
        /\ edits' = [edits EXCEPT !.gestures = @ + 1]
        /\ UNCHANGED <<flowData, appVars, customNodeStyles, defaultNodeStylesObject,
                       g, zoomBound, container, dom, svgGroupRef, exportVars, hoverVars>>

\* d3.zoom drag of the background by (dx, dy)
Pan(dx, dy) ==
    /\ zoomBound
    /\ edits.gestures < MaxGestures
    /\ transform' = Transform(transform.k, RAdd(transform.x, RInt(dx)),
                                           RAdd(transform.y, RInt(dy)))
    /\ edits' = [edits EXCEPT !.gestures = @ + 1]
    /\ UNCHANGED <<flowData, appVars, customNodeStyles, defaultNodeStylesObject,
                   g, zoomBound, container, dom, svgGroupRef, exportVars, hoverVars>>

Pointers == { Point(400, 300) }
WheelFactors == { Rat(1, 2), RInt(2) }
PanDeltas == { Point(50, -30) }

NextChart ==
    \/ \E d \in ChartDiagrams : DataArrives(d)
    \/ DataCleared
    \/ \E e \in StyleEdits : handleStyleChange(e)
    \/ onReset
    \/ \E p \in Pointers, f \in WheelFactors : Wheel(p, f)
    \/ \E d \in PanDeltas : Pan(d.x, d.y)

\* the FlowChart component under every data prop App can pass
SpecChart == Init /\ [][NextChart]_vars

----------------------------------------------------------------------------
(* FlowChart: dragging a node *)

\* a drag handler that follows only the edges leaving the node: the variant
\* of Drag that C13 must tell apart
Drag_SourceOnly(id, p) ==
    LET Incident(key) == key[1] = id
        nodes1 == [g.nodes EXCEPT ![id].x = p.x, ![id].y = p.y]
        Center(n) == Point(nodes1[n].x, nodes1[n].y)
        Mid(key) == Point(Rat(nodes1[key[1]].x + nodes1[key[2]].x, 2),
                          Rat(nodes1[key[1]].y + nodes1[key[2]].y, 2))
    IN  /\ id \in DOMAIN g.nodes
        /\ edits.drags < MaxDrags
        /\ g' = [g EXCEPT
                   !.nodes = nodes1,
                   !.edges = [key \in DOMAIN g.edges |->
                                IF Incident(key) /\ key \in DOMAIN dom.labels
                                THEN [g.edges[key] EXCEPT !.x = Mid(key).x,
                                                          !.y = Mid(key).y]
                                ELSE g.edges[key]]]
        /\ dom' = [nodes |-> [dom.nodes EXCEPT ![id] = p],
                   paths |-> [key \in DOMAIN dom.paths |->
                                IF Incident(key)
                                THEN <<Center(key[1]), Center(key[2])>>
                                ELSE dom.paths[key]],
                   labels |-> [key \in DOMAIN dom.labels |->
                                 IF Incident(key) THEN Mid(key)
                                 ELSE dom.labels[key]],
                   text |-> dom.text]
        /\ edits' = [edits EXCEPT !.drags = @ + 1]
        /\ UNCHANGED <<flowData, appVars, customNodeStyles, defaultNodeStylesObject,
                       transform, zoomBound, container, svgGroupRef, exportVars, hoverVars>>

\* lines 490-522: one 'drag' event of the node id, at the point p of the
\* diagram; the edges followed are those with e.v === nodeId || e.w === nodeId
Drag(id, p) ==
    LET Incident(key) == key[1] = id \/ key[2] = id
        nodes1 == [g.nodes EXCEPT ![id].x = p.x, ![id].y = p.y]
        Center(n) == Point(nodes1[n].x, nodes1[n].y)
        Mid(key) == Point(Rat(nodes1[key[1]].x + nodes1[key[2]].x, 2),
                          Rat(nodes1[key[1]].y + nodes1[key[2]].y, 2))
    IN  /\ id \in DOMAIN g.nodes
        /\ edits.drags < MaxDrags
        /\ g' = [g EXCEPT
                   !.nodes = nodes1,
                   !.edges = [key \in DOMAIN g.edges |->
                                IF Incident(key) /\ key \in DOMAIN dom.labels
                                THEN [g.edges[key] EXCEPT !.x = Mid(key).x,
                                                          !.y = Mid(key).y]
                                ELSE g.edges[key]]]
        /\ dom' = [nodes |-> [dom.nodes EXCEPT ![id] = p],
                   paths |-> [key \in DOMAIN dom.paths |->
                                IF Incident(key)
                                THEN <<Center(key[1]), Center(key[2])>>
                                ELSE dom.paths[key]],
                   labels |-> [key \in DOMAIN dom.labels |->
                                 IF Incident(key) THEN Mid(key)
                                 ELSE dom.labels[key]],
                   text |-> dom.text]
        /\ edits' = [edits EXCEPT !.drags = @ + 1]
        /\ UNCHANGED <<flowData, appVars, customNodeStyles, defaultNodeStylesObject,
                       transform, zoomBound, container, svgGroupRef, exportVars, hoverVars>>

DragPoints == { Point(301, 200), Point(10, -45) }

DragPool ==
    { JFlowchart(JArr(<<NodeA>>), JArr(<<>>)),
      JFlowchart(JArr(<<NodeA, NodeB>>),
                 JArr(<<ChartEdge(<<"a">>, <<"a">>, JNotStr),
                        ChartEdge(<<"a">>, <<"b">>, JStr(<<"Yes">>))>>)),
      JFlowchart(JArr(<<NodeA, NodeB>>),
                 JArr(<<ChartEdge(<<"b">>, <<"b">>, JStr(<<"Again">>)),
                        ChartEdge(<<"b">>, <<"a">>, JStr(<<>>))>>)),
      JFlowchart(JArr(<<NodeB, NodeA>>),
                 JArr(<<ChartEdge(<<"a">>, <<"b">>, JStr(<<"Yes">>)),
                        ChartEdge(<<"b">>, <<"a">>, JStr(<<"No">>))>>)) }

DragDiagrams ==
    { fc \in DragPool :
        /\ Len(fc.nodes.items) <= MaxNodes
        /\ Len(fc.edges.items) <= MaxEdges
        /\ Validate(JResponse(fc, JArr(<<>>))).ok }

NodeIds == { <<"a">>, <<"b">> }

NextDrag ==
    \/ \E d \in DragDiagrams : DataArrives(d)
    \/ DataCleared
    \/ \E id \in NodeIds, p \in DragPoints : Drag(id, p)

\* the FlowChart component under drags of its nodes
SpecDrag == Init /\ [][NextDrag]_vars

----------------------------------------------------------------------------
(* FlowChart: the export menu, the exports and the clipboard *)

MaxOps == 2

viewVars == <<customNodeStyles, defaultNodeStylesObject, g, transform,
              zoomBound, container, dom, svgGroupRef, edits, tooltip, pointer>>

\* lines 597 and 611: the menu items are rendered
MenuShown == HasNodes(flowData) /\ isExportMenuOpen

\* lines 617 and 620: the copy buttons are not disabled
CopyEnabled == copyStatus = "idle"

\* what the menu shows once a handler has run to its end
MenuText(open) == IF open THEN "open" ELSE "closed"

\* an operation that returned at once because there is nothing to snapshot
\* (lines 197, 212, 230, 288, 302)
EarlyReturn(kind) ==
    [Op(kind, "done", NoExport, fitToA4) EXCEPT
        !.failure = "snapshot", !.menuAfter = MenuText(isExportMenuOpen)]

\* line 604: the Export button
ToggleExportMenu ==
    /\ HasNodes(flowData)
    /\ isExportMenuOpen' = ~isExportMenuOpen
    /\ UNCHANGED <<copyStatus, fitToA4, ops, timers, bbox, exported>>
    /\ UNCHANGED <<flowData, appVars, viewVars>>

\* lines 576-580: a mousedown outside the export menu, which exists only
\* while the controls are rendered
handleClickOutside ==
    /\ isExportMenuOpen' = IF HasNodes(flowData) THEN FALSE ELSE isExportMenuOpen
    /\ UNCHANGED <<copyStatus, fitToA4, ops, timers, bbox, exported>>
    /\ UNCHANGED <<flowData, appVars, viewVars>>

\* line 628: the Fit to A4 checkbox
setFitToA4(checked) ==
    /\ HasNodes(flowData)
    /\ fitToA4' = checked
    /\ UNCHANGED <<isExportMenuOpen, copyStatus, ops, timers, bbox, exported>>
    /\ UNCHANGED <<flowData, appVars, viewVars>>

\* lines 195-209, with b the bounding box getBBox returns
handleExportSVG(b) ==
    /\ MenuShown
    /\ Len(ops) < MaxOps
    /\ IF svgGroupRef = "null"
       THEN /\ ops' = Append(ops, EarlyReturn("exportSVG"))
            /\ UNCHANGED <<isExportMenuOpen, exported>>
       ELSE /\ exported' = getSVGString(b)
            /\ isExportMenuOpen' = FALSE
            /\ ops' = Append(ops, [Op("exportSVG", "done", NoExport, fitToA4)
                                      EXCEPT !.menuAfter = "closed"])
    /\ UNCHANGED <<copyStatus, fitToA4, timers, bbox>>
    /\ UNCHANGED <<flowData, appVars, viewVars>>

\* lines 211-214: handleExportPNG up to its await
handleExportPNG(b) ==
    /\ MenuShown
    /\ Len(ops) < MaxOps
    /\ ops' = Append(ops,
                IF svgGroupRef = "null"
                THEN EarlyReturn("exportPNG")
                ELSE Op("exportPNG", "raster", createCanvasFromSVG(b, 2), fitToA4))
    /\ UNCHANGED <<isExportMenuOpen, copyStatus, fitToA4, timers, bbox, exported>>
    /\ UNCHANGED <<flowData, appVars, viewVars>>

\* handleExportPNG closing the menu only after a download: the variant of
\* ExportPNGSettles that C16 must tell apart
ExportPNGSettles_NoFinally(i, ok) ==
    /\ i \in DOMAIN ops
    /\ ops[i].kind = "exportPNG"
    /\ ops[i].stage = "raster"
    /\ isExportMenuOpen' = IF ok THEN FALSE ELSE isExportMenuOpen
    /\ exported' = IF ok THEN PngOf(ops[i].doc) ELSE exported
    /\ ops' = [ops EXCEPT ![i] =
                 [@ EXCEPT !.stage = "done", !.doc = NoExport,
                           !.failure = IF ok THEN "none" ELSE "raster",
                           !.logged = ~ok,
                           !.menuAfter = MenuText(~ok /\ isExportMenuOpen)]]
    /\ UNCHANGED <<copyStatus, fitToA4, timers, bbox>>
    /\ UNCHANGED <<flowData, appVars, viewVars>>

\* lines 214-226: createCanvasFromSVG resolves (ok) or rejects, and
\* handleExportPNG runs to its end
ExportPNGSettles(i, ok) ==
    /\ i \in DOMAIN ops
    /\ ops[i].kind = "exportPNG"
    /\ ops[i].stage = "raster"
    /\ isExportMenuOpen' = FALSE
    /\ exported' = IF ok THEN PngOf(ops[i].doc) ELSE exported
    /\ ops' = [ops EXCEPT ![i] =
                 [@ EXCEPT !.stage = "done", !.doc = NoExport,
                           !.failure = IF ok THEN "none" ELSE "raster",
                           !.logged = ~ok,
                           !.menuAfter = "closed"]]
    /\ UNCHANGED <<copyStatus, fitToA4, timers, bbox>>
    /\ UNCHANGED <<flowData, appVars, viewVars>>

\* lines 229-233: handleExportPDF up to its await
handleExportPDF(b) ==
    /\ MenuShown
    /\ Len(ops) < MaxOps
    /\ ops' = Append(ops,
                IF svgGroupRef = "null"
                THEN EarlyReturn("exportPDF")
                ELSE Op("exportPDF", "raster", createCanvasFromSVG(b, 2), fitToA4))
    /\ UNCHANGED <<isExportMenuOpen, copyStatus, fitToA4, timers, bbox, exported>>
    /\ UNCHANGED <<flowData, appVars, viewVars>>

\* lines 233-283: createCanvasFromSVG resolves (ok) or rejects, and
\* handleExportPDF runs to its end with the fitToA4 of its render
ExportPDFSettles(i, ok) ==
    /\ i \in DOMAIN ops
    /\ ops[i].kind = "exportPDF"
    /\ ops[i].stage = "raster"
    /\ isExportMenuOpen' = FALSE
    /\ exported' = IF ok THEN PdfOf(ops[i].doc, ops[i].fit) ELSE exported
    /\ ops' = [ops EXCEPT ![i] =
                 [@ EXCEPT !.stage = "done", !.doc = NoExport,
                           !.failure = IF ok THEN "none" ELSE "raster",
                           !.logged = ~ok,
                           !.menuAfter = "closed"]]
    /\ UNCHANGED <<copyStatus, fitToA4, timers, bbox>>
    /\ UNCHANGED <<flowData, appVars, viewVars>>

\* the success state of operation i replaces the one on display
Shown(i) ==
    [k \in DOMAIN ops |->
        IF k = i THEN [ops[k] EXCEPT !.stage = "done", !.doc = NoExport,
                                     !.success = "shown"]
        ELSE IF ops[k].success = "shown"
             THEN [ops[k] EXCEPT !.success = "overwritten"]
             ELSE ops[k]]

\* lines 286-290: handleCopySVG up to its await
handleCopySVG(b) ==
    /\ MenuShown
    /\ CopyEnabled
    /\ Len(ops) < MaxOps
    /\ ops' = Append(ops,
                IF svgGroupRef = "null"
                THEN EarlyReturn("copySVG")
                ELSE Op("copySVG", "clipboard", getSVGString(b), fitToA4))
    /\ UNCHANGED <<isExportMenuOpen, copyStatus, fitToA4, timers, bbox, exported>>
    /\ UNCHANGED <<flowData, appVars, viewVars>>

\* lines 290-298: clipboard.writeText resolves (ok) or rejects, and
\* handleCopySVG runs to its end
CopySVGSettles(i, ok) ==
    /\ i \in DOMAIN ops
    /\ ops[i].kind = "copySVG"
    /\ ops[i].stage = "clipboard"
    /\ isExportMenuOpen' = FALSE
    /\ copyStatus' = IF ok THEN "svg" ELSE copyStatus
    /\ timers' = IF ok THEN Append(timers, i) ELSE timers
    /\ ops' = IF ok
              THEN [Shown(i) EXCEPT ![i].menuAfter = "closed"]
              ELSE [ops EXCEPT ![i] =
                      [@ EXCEPT !.stage = "done", !.doc = NoExport,
                                !.failure = "clipboard", !.logged = TRUE,
                                !.notified = TRUE, !.menuAfter = "closed"]]
    /\ UNCHANGED <<fitToA4, bbox, exported>>
    /\ UNCHANGED <<flowData, appVars, viewVars>>

\* lines 301-304: handleCopyPNG up to its await
handleCopyPNG(b) ==
    /\ MenuShown
    /\ CopyEnabled
    /\ Len(ops) < MaxOps
    /\ ops' = Append(ops,
                IF svgGroupRef = "null"
                THEN EarlyReturn("copyPNG")
                ELSE Op("copyPNG", "raster", createCanvasFromSVG(b, 2), fitToA4))
    /\ UNCHANGED <<isExportMenuOpen, copyStatus, fitToA4, timers, bbox, exported>>
    /\ UNCHANGED <<flowData, appVars, viewVars>>

\* lines 304-320: createCanvasFromSVG resolves (ok), canvas.toBlob is
\* called and returns, or it rejects; handleCopyPNG runs to its end
CopyPNGRasterSettles(i, ok) ==
    /\ i \in DOMAIN ops
    /\ ops[i].kind = "copyPNG"
    /\ ops[i].stage = "raster"
    /\ isExportMenuOpen' = FALSE
    /\ ops' = [ops EXCEPT ![i] =
                 IF ok
                 THEN [@ EXCEPT !.stage = "blob", !.menuAfter = "closed"]
                 ELSE [@ EXCEPT !.stage = "done", !.doc = NoExport,
                                !.failure = "raster", !.logged = TRUE,
                                !.notified = TRUE, !.menuAfter = "closed"]]
    /\ UNCHANGED <<copyStatus, fitToA4, timers, bbox, exported>>
    /\ UNCHANGED <<flowData, appVars, viewVars>>

\* lines 305-311: the callback of canvas.toBlob, called after handleCopyPNG
\* has returned, with a blob (ok) or with null; its throw rejects the
\* promise of the callback, which nothing handles
CopyPNGBlob(i, ok) ==
    /\ i \in DOMAIN ops
    /\ ops[i].kind = "copyPNG"
    /\ ops[i].stage = "blob"
    /\ ops' = [ops EXCEPT ![i] =
                 IF ok
                 THEN [@ EXCEPT !.stage = "clipboard"]
                 ELSE [@ EXCEPT !.stage = "done", !.doc = NoExport,
                                !.failure = "blob", !.escaped = TRUE]]
    /\ UNCHANGED <<isExportMenuOpen, copyStatus, fitToA4, timers, bbox, exported>>
    /\ UNCHANGED <<flowData, appVars, viewVars>>

\* lines 309-313: clipboard.write resolves (ok) or rejects inside the
\* callback of canvas.toBlob
CopyPNGClipboardSettles(i, ok) ==
    /\ i \in DOMAIN ops
    /\ ops[i].kind = "copyPNG"
    /\ ops[i].stage = "clipboard"
    /\ copyStatus' = IF ok THEN "png" ELSE copyStatus
    /\ timers' = IF ok THEN Append(timers, i) ELSE timers
    /\ ops' = IF ok
              THEN Shown(i)
              ELSE [ops EXCEPT ![i] =
                      [@ EXCEPT !.stage = "done", !.doc = NoExport,
                                !.failure = "clipboard", !.escaped = TRUE]]
    /\ UNCHANGED <<isExportMenuOpen, fitToA4, bbox, exported>>
    /\ UNCHANGED <<flowData, appVars, viewVars>>

\* lines 292 and 313: the oldest pending timeout of 2000 ms runs its
\* callback; timers of one delay run in the order they were set
TimerFires ==
    /\ timers # <<>>
    /\ copyStatus' = "idle"
    /\ timers' = Tail(timers)
    /\ ops' = [k \in DOMAIN ops |->
                 IF ops[k].success = "shown"
                 THEN [ops[k] EXCEPT !.success =
                         IF k = Head(timers) THEN "ownTimer" ELSE "otherTimer"]
                 ELSE ops[k]]
    /\ UNCHANGED <<isExportMenuOpen, fitToA4, bbox, exported>>
    /\ UNCHANGED <<flowData, appVars, viewVars>>

\* the diagram under the export menu
ExportDiagrams ==
    { JFlowchart(JArr(<<NodeA, NodeB>>),
                 JArr(<<ChartEdge(<<"a">>, <<"b">>, JStr(<<"Yes">>))>>)) }

\* a bounding box getBBox returns for the painted diagram
MenuBBoxes == { BBox(RInt(0), RInt(0), RInt(150), Rat(801, 4)) }

Settled == BOOLEAN

NextExport ==
    \/ \E d \in ExportDiagrams : DataArrives(d)
    \/ DataCleared
    \/ ToggleExportMenu
    \/ handleClickOutside
    \/ \E b \in MenuBBoxes : handleExportSVG(b)
    \/ \E b \in MenuBBoxes : handleExportPNG(b)
    \/ \E b \in MenuBBoxes : handleExportPDF(b)
    \/ \E b \in MenuBBoxes : handleCopySVG(b)
    \/ \E b \in MenuBBoxes : handleCopyPNG(b)
    \/ \E i \in 1..MaxOps, ok \in Settled : ExportPNGSettles(i, ok)
    \/ \E i \in 1..MaxOps, ok \in Settled : ExportPDFSettles(i, ok)
    \/ \E i \in 1..MaxOps, ok \in Settled : CopySVGSettles(i, ok)
    \/ \E i \in 1..MaxOps, ok \in Settled : CopyPNGRasterSettles(i, ok)
    \/ \E i \in 1..MaxOps, ok \in Settled : CopyPNGBlob(i, ok)
    \/ \E i \in 1..MaxOps, ok \in Settled : CopyPNGClipboardSettles(i, ok)
    \/ TimerFires

\* the FlowChart component under its export menu
SpecExport == Init /\ [][NextExport]_vars

----------------------------------------------------------------------------
(* FlowChart: the geometry of the exported documents *)

\* the bounding boxes getBBox can return: whole and fractional sizes, wide
\* and high, with the origin off (0, 0)
BBoxes ==
    { BBox(x, y, w, h) :
        x \in {Rat(-25, 2)}, y \in {RInt(7)},
        w \in {RInt(150), RInt(200), RInt(560), Rat(601, 4)},
        h \in {RInt(60), RInt(150), RInt(160), RInt(200), RInt(760), Rat(801, 4)} }

Painted == CHOOSE d \in ExportDiagrams : TRUE

\* the diagram is painted in a container of 800 by 600, the export menu is
\* open, and the browser measures the content as one of BBoxes
GeometryInit ==
    /\ script = defaultScript
    /\ generatedFunctions = <<>>
    /\ isLoading = FALSE
    /\ error = ErrNull
    /\ calls = <<>>
    /\ started = 0
    /\ lastWriter = 0
    /\ flowData = Painted
    /\ customNodeStyles = StyleState(TRUE, defaultNodeStyles)
    /\ defaultNodeStylesObject = defaultNodeStyles
    /\ g = Layout(Painted, "column")
    /\ dom = Paint(Layout(Painted, "column"))
    /\ svgGroupRef = "g"
    /\ container = Size(800, 600)
    /\ zoomBound = TRUE
    /\ transform = AutoFit(Size(800, 600), Layout(Painted, "column").width,
                           Layout(Painted, "column").height)
    /\ edits = [styleChanges |-> 0, gestures |-> 0, drags |-> 0]
    /\ isExportMenuOpen = TRUE
    /\ copyStatus = "idle"
    /\ fitToA4 = TRUE
    /\ ops = <<>>
    /\ timers = <<>>
    /\ bbox \in BBoxes
    /\ exported = NoExport
    /\ tooltip = Tooltip(FALSE, JStr(<<>>), 0, 0)
    /\ pointer = NoPointer

NextGeometry ==
    \/ ToggleExportMenu
    \/ \E checked \in BOOLEAN : setFitToA4(checked)
    \/ handleExportSVG(bbox)
    \/ handleExportPNG(bbox)
    \/ handleExportPDF(bbox)
    \/ \E i \in 1..MaxOps, ok \in Settled : ExportPNGSettles(i, ok)
    \/ \E i \in 1..MaxOps, ok \in Settled : ExportPDFSettles(i, ok)

\* the exports of a painted diagram, for every measured bounding box
SpecGeometry == GeometryInit /\ [][NextGeometry]_vars

----------------------------------------------------------------------------
(* FlowChart: the text of the nodes *)

\* the labels of up to MaxLabel characters, of letters and spaces
LabelPool == UNION {[1..k -> {"a", " "}] : k \in 0..MaxLabel}

\* a diagram of one node for every label
WrapDiagrams ==
    { JFlowchart(JArr(<<JNode(JStr(<<"a">>), JStr(label), JStr(<<"process">>),
                           JNotStr)>>),
                 JArr(<<>>)) : label \in LabelPool }

NextWrap ==
    \/ \E d \in WrapDiagrams : DataArrives(d)
    \/ DataCleared

\* the FlowChart component painting a node of every label
SpecWrap == Init /\ [][NextWrap]_vars

----------------------------------------------------------------------------
(* FlowChart: the tooltip of the nodes *)

\* line 534: nodeInfo.description is truthy
HasDescription(node) == node.description.isString /\ node.description.chars # <<>>

\* lines 532-542: the pointer comes onto the element of node id, at p of
\* the container
mouseover(id, p) ==
    /\ id \in DOMAIN dom.nodes
    /\ ~pointer.over \/ pointer.id = id
    /\ pointer' = OnNode(id)
    /\ tooltip' = IF HasDescription(g.nodes[id])
                  THEN Tooltip(TRUE, g.nodes[id].description, p.x + 15, p.y + 15)
                  ELSE tooltip
    /\ UNCHANGED <<flowData, appVars, exportVars, customNodeStyles,
                   defaultNodeStylesObject, g, transform, zoomBound, container,
                   dom, svgGroupRef, edits>>

\* lines 543-545: the pointer moves on a node element
mousemove(p) ==
    /\ pointer.over
    /\ tooltip' = [tooltip EXCEPT !.x = p.x + 15, !.y = p.y + 15]
    /\ UNCHANGED <<flowData, appVars, exportVars, customNodeStyles,
                   defaultNodeStylesObject, g, transform, zoomBound, container,
                   dom, svgGroupRef, edits, pointer>>

\* lines 546-548: the pointer leaves the node element it is on
mouseout ==
    /\ pointer.over
    /\ pointer' = NoPointer
    /\ tooltip' = [tooltip EXCEPT !.visible = FALSE]
    /\ UNCHANGED <<flowData, appVars, exportVars, customNodeStyles,
                   defaultNodeStylesObject, g, transform, zoomBound, container,
                   dom, svgGroupRef, edits>>

\* a node with a description and a node without one
HoverDiagrams == { JFlowchart(JArr(<<NodeA, NodeB>>), JArr(<<>>)) }

HoverPoints == { Point(100, 40), Point(120, 180), Point(160, 50) }

NextHover ==
    \/ \E d \in HoverDiagrams : DataArrives(d)
    \/ DataCleared
    \/ \E id \in NodeIds, p \in HoverPoints : mouseover(id, p)
    \/ \E p \in HoverPoints : mousemove(p)
    \/ mouseout

\* the FlowChart component under the pointer
SpecHover == Init /\ [][NextHover]_vars

----------------------------------------------------------------------------
(* Properties of the inference boundary and of the App *)

\* the causes that are violations of the validation contract
IngestionCauses ==
    {"structure", "node", "nodeType", "edge", "danglingSource", "danglingTarget"}

Displayed == flowData # FlowNull

\* C1: a call makes at most maxRetries attempts and has ended once it made
\* them all; every attempt but the last failed with a rate-limit rejection
\* of the provider; after a failure of any other cause the call has thrown.
C1_RetryOnlyOnRateLimit ==
    \A r \in Requests :
        LET c == calls[r]
            n == Len(c.log)
        IN  /\ n <= maxRetries
            /\ (n = maxRetries => Finished(c))
            /\ \A k \in 1..(n - 1) : c.log[k] = "rateLimit"
            /\ (n > 0 /\ c.log[n] \notin {"ok", "rateLimit"} => c.pc = "threw")

\* C2: a payload that violates the validation contract ends the call: it is
\* the answer to the last attempt, no backoff delay follows it, and the call
\* has thrown.
C2_ViolationNotRetried ==
    \A r \in Requests :
        LET c == calls[r]
        IN  \A k \in 1..Len(c.log) :
                c.log[k] \in IngestionCauses =>
                    /\ k = Len(c.log)
                    /\ Len(c.waited) = k - 1
                    /\ c.pc = "threw"

EdgesResolve(fc) ==
    LET ids == {fc.nodes.items[i].id.chars : i \in 1..Len(fc.nodes.items)}
    IN  \A j \in 1..Len(fc.edges.items) :
            /\ fc.edges.items[j].source.chars \in ids
            /\ fc.edges.items[j].target.chars \in ids

TypesValid(fc) ==
    \A i \in 1..Len(fc.nodes.items) : fc.nodes.items[i].type.chars \in NodeTypes

\* C3: the displayed diagram has every edge end among its node ids and every
\* node type among the four; and while the latest request is one in which
\* the provider answered with an edge whose source is no declared node id,
\* the FlowChart has no diagram with nodes to lay out.
C3_DanglingSourceLeavesEmpty ==
    /\ Displayed => EdgesResolve(flowData) /\ TypesValid(flowData)
    /\ \A r \in Requests :
          r = started /\ "danglingSource" \in Range(calls[r].log) =>
              ~HasNodes(flowData)

\* C4: every node of the displayed diagram has a non-empty id and a
\* non-empty label.
C4_NonEmptyIdAndLabel ==
    Displayed =>
        \A i \in 1..Len(flowData.nodes.items) :
            /\ flowData.nodes.items[i].id.chars # <<>>
            /\ flowData.nodes.items[i].label.chars # <<>>

\* C5: the node ids of a displayed diagram are pairwise distinct (stated for
\* the diagrams whose ids are all non-empty).
C5_DistinctNodeIds ==
    Displayed /\ (\A i \in 1..Len(flowData.nodes.items) :
                    flowData.nodes.items[i].id.chars # <<>>) =>
        \A i, j \in 1..Len(flowData.nodes.items) :
            i # j => flowData.nodes.items[i].id.chars # flowData.nodes.items[j].id.chars

\* C7: the k-th backoff delay is 2000ms * 2^(k-1); a delay is waited only
\* between two attempts, never after the last one; and when attempts 1 and 2
\* fail with rate-limit rejections and attempt 3 succeeds, the delays waited
\* are 2000ms then 4000ms (6000ms in all) and the App shows the payload of
\* attempt 3.
C7_BackoffSchedule ==
    \A r \in Requests :
        LET c == calls[r]
        IN  /\ \A k \in 1..Len(c.waited) :
                  c.waited[k] = IF k = 1 THEN 2000 ELSE 2 * c.waited[k - 1]
            /\ Len(c.waited) < maxRetries
            /\ (Finished(c) /\ c.log # <<>> => Len(c.waited) = Len(c.log) - 1)
            /\ (c.pc = "backoff" => Len(c.waited) = Len(c.log) - 1 /\ Len(c.log) < maxRetries)
            /\ (c.log = <<"rateLimit", "rateLimit", "ok">> =>
                  /\ c.waited = <<2000, 4000>>
                  /\ c.waited[1] + c.waited[2] = 6000
                  /\ c.pc = "returned"
                  /\ flowData = c.answer.flowchart
                  /\ generatedFunctions = c.answer.functions.items)

C7_Witness ==
    \E r \in Requests :
        /\ calls[r].log = <<"rateLimit", "rateLimit", "ok">>
        /\ calls[r].pc = "returned"
        /\ Displayed

\* C8: when the latest request has ended in an error, flowData is null, the
\* functions list is empty, the error slot holds the message of the error
\* thrown, and isLoading is false.
C8_ErrorResetsDiagram ==
    \A r \in Requests :
        calls[r].pc = "threw" /\ r = started =>
            /\ flowData = FlowNull
            /\ generatedFunctions = <<>>
            /\ error = ErrText(calls[r].thrown)
            /\ ~error.isNull
            /\ ~isLoading

\* a request that displayed a diagram, followed by one that ended in an error
C8_Witness ==
    /\ started >= 2
    /\ calls[started - 1].pc = "returned"
    /\ calls[started].pc = "threw"
    /\ calls[started].log[Len(calls[started].log)] \in IngestionCauses

\* C9: the diagram, the functions list and the error slot were last written
\* by the most recently started request, and no older request is in flight
\* whose completion could write them.
C9_LatestRequestWrites ==
    /\ lastWriter = started
    /\ \A r \in Requests : InFlight(calls[r]) => r = started

\* the second request's response has been written
C9_Witness ==
    /\ started >= 2
    /\ Finished(calls[started])
    /\ Finished(calls[started - 1])
    /\ lastWriter = started

----------------------------------------------------------------------------
(* Properties of the FlowChart *)

DiagramIds(data) == {data.nodes.items[i].id.chars : i \in 1..Len(data.nodes.items)}

\* C6: for a painted diagram with pairwise distinct node ids, N nodes and M
\* edges, the laid-out graph has N nodes, whose ids are the diagram's, and M
\* edges.
C6_LayoutCounts ==
    HasNodes(flowData) /\ Cardinality(DiagramIds(flowData)) = Len(flowData.nodes.items) =>
        /\ Cardinality(DOMAIN g.nodes) = Len(flowData.nodes.items)
        /\ DOMAIN g.nodes = DiagramIds(flowData)
        /\ Cardinality(DOMAIN g.edges) = Len(flowData.edges.items)

\* C10: a re-render caused by a style change or a reset alone, after the user
\* has panned or zoomed, leaves the zoom transform as it was.
C10_StyleChangeKeepsView ==
    [][(customNodeStyles' # customNodeStyles /\ flowData' = flowData
            /\ edits.gestures > 0)
        => transform' = transform]_vars

\* C11: the scale of the zoom transform lies in [0.1, 4].
C11_ScaleInExtent ==
    /\ RLeq(Rat(1, 10), transform.k)
    /\ RLeq(transform.k, RInt(4))

\* C12: right after a diagram with nodes is painted (no gesture since), the
\* scale is the least of (container width - 80) / graph width, (container
\* height - 80) / graph height and 3/2, and twice each translation plus the
\* scaled graph size is the container size (the scaled graph is centred).
C12_AutoFitOnPaint ==
    HasNodes(flowData) /\ edits.gestures = 0 =>
        LET byWidth == Rat(container.width - 80, g.width)
            byHeight == Rat(container.height - 80, g.height)
            cap == Rat(3, 2)
        IN  /\ transform.k \in {byWidth, byHeight, cap}
            /\ RLeq(transform.k, byWidth)
            /\ RLeq(transform.k, byHeight)
            /\ RLeq(transform.k, cap)
            /\ RAdd(RMul(RInt(2), transform.x), RMul(RInt(g.width), transform.k))
                   = RInt(container.width)
            /\ RAdd(RMul(RInt(2), transform.y), RMul(RInt(g.height), transform.k))
                   = RInt(container.height)

\* a diagram painted at the cap of 3/2 after the user had changed a style
C12_Witness ==
    /\ HasNodes(flowData)
    /\ edits.gestures = 0
    /\ edits.styleChanges > 0
    /\ transform.k = Rat(3, 2)
    /\ RLess(Rat(3, 2), Rat(container.width - 80, g.width))

\* C13: a drag event of node A to the point p puts A at p and leaves every
\* other node where it was; every edge with A as source or target is drawn
\* as the 2-point line between the current centres of its source and target,
\* and its label, when it has one, sits at the midpoint of those centres;
\* the path and the label position of every other edge are unchanged.
C13_DragMovesIncidentEdges ==
    [][\A id \in NodeIds, p \in DragPoints :
          Drag(id, p) =>
              /\ dom'.nodes[id] = p
              /\ \A n \in DOMAIN dom.nodes \ {id} : dom'.nodes[n] = dom.nodes[n]
              /\ DOMAIN dom'.paths = DOMAIN dom.paths
              /\ DOMAIN dom'.labels = DOMAIN dom.labels
              /\ \A key \in DOMAIN dom.paths :
                    IF key[1] = id \/ key[2] = id
                    THEN /\ dom'.paths[key] = <<dom'.nodes[key[1]], dom'.nodes[key[2]]>>
                         /\ key \in DOMAIN dom.labels =>
                              /\ RMul(RInt(2), dom'.labels[key].x)
                                   = RInt(dom'.nodes[key[1]].x + dom'.nodes[key[2]].x)
                              /\ RMul(RInt(2), dom'.labels[key].y)
                                   = RInt(dom'.nodes[key[1]].y + dom'.nodes[key[2]].y)
                    ELSE /\ dom'.paths[key] = dom.paths[key]
                         /\ key \in DOMAIN dom.labels =>
                              dom'.labels[key] = dom.labels[key]]_vars

\* both nodes of a diagram dragged, one after the other, with a labelled edge
\* between them drawn between the two new centres
C13_Witness ==
    /\ edits.drags = 2
    /\ \E key \in DOMAIN dom.labels :
          /\ key[1] # key[2]
          /\ dom.nodes[key[1]] \in DragPoints
          /\ dom.nodes[key[2]] \in DragPoints
          /\ dom.nodes[key[1]] # dom.nodes[key[2]]
          /\ dom.paths[key] = <<dom.nodes[key[1]], dom.nodes[key[2]]>>

\* C14: the object of the built-in defaults always has its original content,
\* and whenever the style state is that object (initially and after a
\* reset) every field of every node type reads as the built-in default.
C14_ResetRestoresDefaults ==
    /\ defaultNodeStylesObject = defaultNodeStyles
    /\ customNodeStyles.isDefaults =>
          \A t \in StyleTypes :
              \A f \in {"color1", "color2", "stroke", "textColor", "fontSize"} :
                  customNodeStyles.styles[t][f] = defaultNodeStyles[t][f]

\* a reset after the style changes the model allows
C14_Witness ==
    /\ edits.styleChanges = MaxStyleChanges
    /\ customNodeStyles.isDefaults
    /\ customNodeStyles.styles = defaultNodeStyles

\* C15: the font size stored for every node type is an integer from 8 to 24.
C15_FontSizeInRange ==
    \A t \in StyleTypes :
        /\ ~customNodeStyles.styles[t].fontSize.isNaN
        /\ customNodeStyles.styles[t].fontSize.value >= 8
        /\ customNodeStyles.styles[t].fontSize.value <= 24

\* the handler of operation i runs to its end in this step
Ends(i) ==
    /\ i \in DOMAIN ops'
    /\ ops'[i].menuAfter # "pending"
    /\ (i \in DOMAIN ops => ops[i].menuAfter = "pending")

\* C16: whenever the handler of an export or clipboard operation runs to its
\* end, after a success, a failure or an early return, the export menu is
\* closed.
C16_OperationsCloseMenu ==
    [][\A i \in 1..MaxOps : Ends(i) => ~isExportMenuOpen']_vars

\* a failed PNG export and a Copy SVG have both ended, the menu is closed
C16_Witness ==
    /\ ~isExportMenuOpen
    /\ \E i, j \in DOMAIN ops :
          /\ ops[i].kind = "exportPNG" /\ ops[i].failure = "raster"
          /\ ops[i].menuAfter = "closed"
          /\ ops[j].kind = "copySVG" /\ ops[j].menuAfter = "closed"

\* C17: every failure of an export or clipboard operation is caught in its
\* handler, logged and shown to the user by a notification.
C17_FailuresCaughtAndSurfaced ==
    \A i \in DOMAIN ops :
        ops[i].failure # "none" =>
            ops[i].logged /\ ops[i].notified /\ ~ops[i].escaped

\* C18: the success state of a copy is cleared only by the timer that was
\* started when it was set.
C18_SuccessClearedByOwnTimer ==
    \A i \in DOMAIN ops : ops[i].success # "otherTimer"

\* C19: an exported document is (w + 40) by (h + 40) times its scale for
\* the bounding box (x, y, w, h) it was made from, and its content group is
\* moved so that the bounding box starts at (20, 20) times the scale.
C19_ExportBounds ==
    exported.kind # "none" =>
        LET b == exported.bbox
            scale == RInt(exported.scale)
        IN  /\ exported.width = RMul(RAdd(b.width, RInt(40)), scale)
            /\ exported.height = RMul(RAdd(b.height, RInt(40)), scale)
            /\ RAdd(exported.tx, RMul(b.x, scale)) = RMul(RInt(20), scale)
            /\ RAdd(exported.ty, RMul(b.y, scale)) = RMul(RInt(20), scale)

\* C20: a PDF fitted to the page is landscape exactly when the canvas is
\* wider than high; the image is at most 20 mm smaller than the A4 page in
\* each direction and exactly so in one; it keeps the ratio of the canvas;
\* it is centred.
C20_FitToPage ==
    exported.kind = "pdf" /\ exported.fit =>
        LET p == exported.page
            usableWidth == RSub(p.pageWidth, RInt(20))
            usableHeight == RSub(p.pageHeight, RInt(20))
        IN  /\ p.landscape <=> RLess(RInt(1), RDiv(exported.width, exported.height))
            /\ p.pageWidth = RInt(IF p.landscape THEN 297 ELSE 210)
            /\ p.pageHeight = RInt(IF p.landscape THEN 210 ELSE 297)
            /\ RLeq(p.imgWidth, usableWidth)
            /\ RLeq(p.imgHeight, usableHeight)
            /\ p.imgWidth = usableWidth \/ p.imgHeight = usableHeight
            /\ RMul(p.imgWidth, exported.height) = RMul(p.imgHeight, exported.width)
            /\ p.x = RDiv(RSub(p.pageWidth, p.imgWidth), RInt(2))
            /\ p.y = RDiv(RSub(p.pageHeight, p.imgHeight), RInt(2))

\* a landscape PDF whose image is bounded by the height of the page
C20_Witness ==
    /\ exported.kind = "pdf"
    /\ exported.fit
    /\ exported.page.landscape
    /\ exported.page.imgHeight = RInt(190)
    /\ RLess(exported.page.imgWidth, RInt(277))

\* the words of a text: its pieces between whitespace that are not empty
WordsOf(chars) ==
    LET pieces == SplitWhitespace(chars, <<>>, FALSE)
    IN  SelectSeq(pieces, LAMBDA w : w # <<>>)

\* the words of the lines of a text, line after line
RECURSIVE WordsOfLines(_)
WordsOfLines(lines) ==
    IF lines = <<>> THEN <<>>
    ELSE WordsOf(Head(lines)) \o WordsOfLines(Tail(lines))

\* C21: the lines drawn for the label of a painted node hold the words of
\* the label, each once and in order, and a label that is at most 125 wide
\* is drawn on one line.
C21_WrapKeepsWords ==
    \A id \in DOMAIN dom.text :
        /\ WordsOfLines(dom.text[id]) = WordsOf(g.nodes[id].label)
        /\ getComputedTextLength(g.nodes[id].label) <= NODE_WIDTH - 25
              => Len(dom.text[id]) = 1

\* the same for the labels that do not begin with whitespace
WrapHoldsWithoutLeadingSpace ==
    \A id \in DOMAIN dom.text :
        (g.nodes[id].label = <<>> \/ ~IsSpace(Head(g.nodes[id].label))) =>
            /\ WordsOfLines(dom.text[id]) = WordsOf(g.nodes[id].label)
            /\ getComputedTextLength(g.nodes[id].label) <= NODE_WIDTH - 25
                  => Len(dom.text[id]) = 1

\* C22: while the tooltip is visible the pointer is on a node of the painted
\* diagram that has a description, and the tooltip shows that description.
C22_TooltipFollowsPointer ==
    tooltip.visible =>
        /\ pointer.over
        /\ pointer.id \in DOMAIN g.nodes
        /\ HasDescription(g.nodes[pointer.id])
        /\ tooltip.content = g.nodes[pointer.id].description

\* C23: a call whose three attempts all failed with rate-limit errors has
\* thrown the error of the statement after the retry loop.
C23_BusyAfterThreeRateLimits ==
    \A r \in Requests :
        calls[r].pc = "threw"
        /\ calls[r].log = <<"rateLimit", "rateLimit", "rateLimit">>
            => calls[r].thrown = BusyMessage

\* C24: the error slot and the diagram are never both set; the functions
\* list is non-empty only with a diagram; isLoading is true exactly while a
\* request is in flight; and while the script is blank and is not edited, no
\* request starts and, with none in flight, no state of the App changes.
C24_AppInvariants ==
    /\ [](/\ ~(error # ErrNull /\ flowData # FlowNull)
          /\ (generatedFunctions # <<>> => flowData # FlowNull)
          /\ (isLoading <=> \E r \in Requests : InFlight(calls[r])))
    /\ [][Blank(script) /\ script' = script =>
             /\ started' = started
             /\ ~isLoading => UNCHANGED <<flowData, generatedFunctions, error,
                                          isLoading, calls>>]_vars

\* after two requests, the second failed, the script has been made blank
C24_Witness ==
    /\ started = 2
    /\ error # ErrNull
    /\ flowData = FlowNull
    /\ ~isLoading
    /\ Blank(script)

============================================================================
